---- MODULE Spec2Model ----
(***************************************************************************)
(* Model of the /commit-crime handler of the mafia-game backend, in the    *)
(* five revisions the repository holds, run against one Postgres database. *)
(*                                                                         *)
(*   "LastCrimes"  src/unnamed/part_001:120-186   users.last_crimes JSONB  *)
(*                                                + jail, pity points      *)
(*   "Cooldowns"   src/unnamed/part_001:326-395   user_crime_cooldowns     *)
(*                                                upsert, xp_reward        *)
(*   "LastCrime"   src/server.js:540-577          one users.last_crime     *)
(*   "Unlock"      src/server.js:758-842          four-way roll, critical  *)
(*                                                success, available_at    *)
(*   "XpRank"      src/server.js:1154-1221        XP + rank, no jail       *)
(*                                                                         *)
(* Every `await pool.query(...)` is one atomic database statement and a    *)
(* point where another request, or the clock, may step in between.  The    *)
(* code between two awaits runs in the action of the statement before it.  *)
(* Time is counted in ticks; one second is TicksPerSec ticks.              *)
(***************************************************************************)
EXTENDS Integers, FiniteSets, Sequences, TLC

VARIABLES rev, now, dbAhead, crimes, users, cooldown_rows, req, resp, nreq,
          accounts, user_properties, jobs

vars == <<rev, now, dbAhead, crimes, users, cooldown_rows, req, resp, nreq,
          accounts, user_properties, jobs>>

\* the tables and requests of the bank, property and admin endpoints
economy == <<accounts, user_properties, jobs>>

(***************************** bounds **************************************)
\* the clock runs up to MaxTime
MaxTime == 8
\* requests started in one behaviour
MaxReqs == 2

(***************************** constants ***********************************)
\* ticks per second (Date.now() counts 1000 per second)
TicksPerSec == 2
\* Math.random() is k / RollDen for k in 0 .. RollDen-1
RollDen == 10
\* the clock starts this long after the epoch
StartTime == 3 * TicksPerSec

NULL == -1

Revisions == {"LastCrimes", "Cooldowns", "LastCrime", "Unlock", "XpRank"}

Players == {1}
NoSuchUser == 99
UserIds == Players \cup {NoSuchUser}

CrimeIds == {1, 2}
NoSuchCrime == 99
CrimeReqIds == CrimeIds \cup {NoSuchCrime}

Slots == {1, 2}

\* the values Math.random() takes in the outcome roll and in the reward draw
Rolls == {0, 5, RollDen - 1}
Draws == {0, RollDen - 1}
\* a cooldown_seconds longer than the time since the epoch
LongCooldown == MaxTime

(***************************** the catalog *********************************)
\* rows of table crimes.  Crime 1 is the same in every catalog; crime 2 is as
\* seeded with success_rate 0 or 1, or as POST /admin/update-crime, which
\* validates nothing, has left it: with a cooldown that reaches further than the
\* clock is from the epoch, with a negative reward, or with a cooldown that is
\* zero or negative
CrimeRow(id, kind) ==
  IF id = 1
  THEN [id |-> 1, min_reward |-> 1, max_reward |-> 2, success_rate |-> 6,
        cooldown_seconds |-> 1, xp_reward |-> 5]
  ELSE CASE kind = "never" ->
              [id |-> 2, min_reward |-> 15000, max_reward |-> 15000, success_rate |-> 0,
               cooldown_seconds |-> 2, xp_reward |-> 10]
         [] kind = "always" ->
              [id |-> 2, min_reward |-> 15000, max_reward |-> 15000,
               success_rate |-> RollDen, cooldown_seconds |-> 2, xp_reward |-> 10]
         [] kind = "long" ->
              [id |-> 2, min_reward |-> 15000, max_reward |-> 15000,
               success_rate |-> RollDen, cooldown_seconds |-> LongCooldown,
               xp_reward |-> 10]
         [] kind = "zero" ->
              [id |-> 2, min_reward |-> 15000, max_reward |-> 15000,
               success_rate |-> 6, cooldown_seconds |-> 0, xp_reward |-> 10]
         [] kind = "backward" ->
              [id |-> 2, min_reward |-> 15000, max_reward |-> 15000,
               success_rate |-> 6, cooldown_seconds |-> 0 - 1, xp_reward |-> 10]
         [] OTHER ->
              [id |-> 2, min_reward |-> 0 - 45, max_reward |-> 0 - 45,
               success_rate |-> 6, cooldown_seconds |-> 2, xp_reward |-> 10]

CatalogKinds == {"never", "always", "long", "negative"}

Catalogs == { [c \in CrimeIds |-> CrimeRow(c, kind)] : kind \in CatalogKinds }

\* catalogs in which /admin/update-crime has set the cooldown_seconds of crime 2
\* to zero or to a negative number
CooldownKinds == {"zero", "backward"}

EditedCatalogs == { [c \in CrimeIds |-> CrimeRow(c, kind)] : kind \in CooldownKinds }

NoCrime == [id |-> NoSuchCrime, min_reward |-> 0, max_reward |-> 0, success_rate |-> 0,
            cooldown_seconds |-> 0, xp_reward |-> 0]

(***************************** rank system *********************************)
RANKS == << [name |-> "Rookie", xp |-> 0],
            [name |-> "Thug", xp |-> 100],
            [name |-> "Hustler", xp |-> 300],
            [name |-> "Gangster", xp |-> 700],
            [name |-> "Capo", xp |-> 1500],
            [name |-> "Underboss", xp |-> 3000],
            [name |-> "Boss", xp |-> 6000],
            [name |-> "Godfather", xp |-> 12000] >>

RECURSIVE getRankFrom(_, _, _)
getRankFrom(xp, k, current) ==
  IF k > Len(RANKS) THEN current
  ELSE getRankFrom(xp, k + 1, IF xp >= RANKS[k].xp THEN RANKS[k].name ELSE current)

\* (mutant) xp > rank.xp in place of xp >= rank.xp
getRankAbove(xp) == getRankFrom(xp - 1, 1, RANKS[1].name)

getRank(xp) == getRankFrom(xp, 1, RANKS[1].name)

(***************************** arithmetic **********************************)
\* Math.ceil(a / b) and Math.floor(a / b) for b > 0
Ceil(a, b) == -((-a) \div b)
Floor(a, b) == a \div b

\* new Date(v).getTime() of a stored timestamp; a missing one reads as 0
TimeOf(v) == IF v = NULL THEN 0 ELSE v

\* the application clock Date.now() and the database clock NOW(), which is
\* dbAhead ticks ahead of it
DbNow == now + dbAhead
AppNow == now

(***************************** rows ****************************************)
\* a users row as INSERT INTO users (username, password) leaves it
NewUser ==
  [money |-> 0, points |-> 0, xp |-> 0, rank |-> "Rookie",
   total_crimes |-> 0, successful_crimes |-> 0, unsuccessful_crimes |-> 0,
   jail_until |-> NULL, last_crime |-> NULL,
   last_crimes |-> [c \in CrimeIds |-> NULL]]

\* a request slot with no request in it
IdleReq ==
  [pc |-> "idle", p |-> 0, c |-> 0, user |-> NewUser, crime |-> NoCrime,
   hasRow |-> FALSE, tgate |-> 0, twait |-> 0, roll |-> 0,
   success |-> FALSE, caught |-> FALSE, reward |-> 0, gain |-> 0,
   jail_until |-> NULL, nextAvailable |-> NULL, newRank |-> "Rookie",
   outcome |-> "none", wait |-> NULL]

InFlight(i) == req[i].pc # "idle"

\* the handler of slot i goes on as r; when r has answered (or thrown) the slot
\* is free again and r is kept as the last response sent
Put(i, r) ==
  IF r.pc \in {"done", "error"}
  THEN req' = [req EXCEPT ![i] = IdleReq] /\ resp' = r
  ELSE req' = [req EXCEPT ![i] = r] /\ UNCHANGED resp

(***************************** the gates ***********************************)
\* (mutant) the time comparison left out
JailedForever(user, t) == user.jail_until # NULL

\* (mutant) >= in place of >
JailedAtGe(user, t) == user.jail_until # NULL /\ user.jail_until >= t

\* user.jail_until && new Date(user.jail_until) > new Date()
JailedAt(user, t) == user.jail_until # NULL /\ user.jail_until > t

\* lastAttempt && new Date(lastAttempt).getTime() + cooldown_seconds * 1000 > Date.now()
OnCooldownAt(last, crime, t) ==
  last # NULL /\ TimeOf(last) + crime.cooldown_seconds * TicksPerSec > t

\* (lastCrimes[crimeId] ? time : 0) + cooldown_seconds * 1000 > now
OnCooldownFromZero(last, crime, t) ==
  TimeOf(last) + crime.cooldown_seconds * TicksPerSec > t

\* availableAt > new Date()
NotYetAvailable(availableAt, t) == availableAt > t

\* (mutant) Math.floor in place of Math.ceil
WaitTimeFloor(expiry, t) == Floor(expiry - t, TicksPerSec)

\* Math.ceil((expiry - Date.now()) / 1000)
WaitTime(expiry, t) == Ceil(expiry - t, TicksPerSec)

\* the second clock read of a rejection, taken after the read of the gate test
Reread(t) == {t, t + 1}

(***************************** the roll ************************************)
\* (mutant) <= in place of <
SimpleRollLe(roll, rate) == roll <= rate

\* Math.random() < crime.success_rate
SimpleRoll(roll, rate) == roll < rate

\* the four-way roll of the unlock revision
FourWayRoll(roll, rate) ==
  IF 10 * roll < rate THEN "critical"
  ELSE IF roll < rate THEN "success"
  ELSE IF 10 * roll < 9 * RollDen THEN "escaped"
  ELSE "caught"

\* (mutant) Math.round in place of Math.floor
RewardRound(crime, draw) ==
  Floor(2 * draw * (crime.max_reward - crime.min_reward + 1) + RollDen, 2 * RollDen)
  + crime.min_reward

\* Math.floor(Math.random() * (max_reward - min_reward + 1)) + min_reward
Reward(crime, draw) ==
  Floor(draw * (crime.max_reward - crime.min_reward + 1), RollDen) + crime.min_reward

\* reward *= 2
Critical(reward) == reward * 2

\* Math.ceil((crime.max_reward / 50) * crime.success_rate * 10)
PointsGained(crime) == Ceil(crime.max_reward * crime.success_rate * 10, 50 * RollDen)

\* Math.floor(crime.max_reward / 10), and a quarter of it for a failure
XpGain(crime) == Floor(crime.max_reward, 10)
XpGainFailed(crime) == Floor(XpGain(crime), 4)

\* new Date(Date.now() + crime.cooldown_seconds * 1000)
JailUntil(crime, t) == t + crime.cooldown_seconds * TicksPerSec

(***************************** the economy tables **************************)
\* the registered users seen by the bank, property and admin endpoints
Members == {1, 2}
MemberIds == Members \cup {NoSuchUser}

\* the columns of users these endpoints read and write (the bank column is
\* called bank in the oldest revision and bank_balance later)
NewAccount ==
  [money |-> 0, bank_balance |-> 0, bullets |-> 0, role |-> "player",
   jail_until |-> NULL]

\* properties: id and base_price
PropertyIds == {1}
NoSuchProperty == 99
base_price == [q \in PropertyIds |-> 10]

\* a numeric value of a request body, and a value that is not a number
Num(n) == [isNum |-> TRUE, n |-> n]
NotANumber == [isNum |-> FALSE, n |-> 0]

\* a request of these endpoints: the handler's position, its body and what it
\* has read
IdleJob ==
  [pc |-> "idle", kind |-> "none", caller |-> 0, target |-> 0, amount |-> Num(0),
   price |-> 0, seller |-> 0, paid |-> FALSE, role |-> "player", bullets |-> 0,
   row |-> NoCrime, outcome |-> "none"]

\* nothing registered beyond the new accounts, no property owned, no request
EconomyIdle ==
  /\ accounts = [m \in Members |-> NewAccount]
  /\ user_properties = {}
  /\ jobs = [i \in Slots |-> IdleJob]

(***************************** Init ****************************************)
Init ==
  /\ rev \in Revisions
  /\ now = StartTime
  /\ dbAhead = 0
  /\ crimes \in Catalogs
  /\ users = [p \in Players |-> NewUser]
  /\ cooldown_rows = [p \in Players |-> [c \in CrimeIds |-> {}]]
  /\ req = [i \in Slots |-> IdleReq]
  /\ resp = IdleReq
  /\ nreq = 0
  /\ EconomyIdle

(***************************** responses ***********************************)
\* return res.status(404).json({ error: "User not found" })
UserNotFound(r) == [r EXCEPT !.pc = "done", !.outcome = "UserNotFound"]

\* return res.status(404).json({ error: "Crime not found" })
CrimeNotFound(r) == [r EXCEPT !.pc = "done", !.outcome = "CrimeNotFound"]

\* (mutant) the answer without jail_until
JailedBare(r) == [r EXCEPT !.pc = "done", !.outcome = "Jailed"]

\* return res.json({ success: false, ..., jail_until: user.jail_until })
Jailed(r) ==
  [r EXCEPT !.pc = "done", !.outcome = "Jailed", !.jail_until = r.user.jail_until]

\* return res.json({ success: false, ..., cooldown: waitTime })
OnCooldown(r, t, t2, w) ==
  [r EXCEPT !.pc = "done", !.outcome = "OnCooldown", !.tgate = t, !.twait = t2,
            !.wait = w]

\* the outcome roll and the values computed from it, at application time t
Rolled(r, crime, roll, draw, t) ==
  LET base == [r EXCEPT !.crime = crime, !.tgate = t, !.twait = t, !.roll = roll]
      won(reward, gain) ==
        [base EXCEPT !.pc = "update", !.success = TRUE, !.outcome = "Success",
                     !.reward = reward, !.gain = gain]
      lost(gain, jail) ==
        [base EXCEPT !.pc = IF jail # NULL /\ rev = "Unlock" THEN "jailUpdate"
                            ELSE "update",
                     !.success = FALSE, !.outcome = "Failure", !.gain = gain,
                     !.caught = (jail # NULL), !.jail_until = jail]
  IN CASE rev = "LastCrimes" ->
            IF SimpleRoll(roll, crime.success_rate)
            THEN won(Reward(crime, draw), PointsGained(crime))
            ELSE lost(1, JailUntil(crime, t))
       [] rev = "Cooldowns" ->
            IF SimpleRoll(roll, crime.success_rate)
            THEN won(Reward(crime, draw), crime.xp_reward)
            ELSE lost(0, JailUntil(crime, t))
       [] rev = "LastCrime" ->
            IF SimpleRoll(roll, crime.success_rate)
            THEN won(Reward(crime, draw), 0)
            ELSE lost(0, JailUntil(crime, t))
       [] rev = "Unlock" ->
            LET way == FourWayRoll(roll, crime.success_rate)
            IN CASE way = "critical" -> won(Critical(Reward(crime, draw)), 0)
                 [] way = "success" -> won(Reward(crime, draw), 0)
                 [] way = "escaped" -> lost(0, NULL)
                 [] OTHER -> lost(0, JailUntil(crime, t))
       [] OTHER ->
            IF SimpleRoll(roll, crime.success_rate)
            THEN won(Reward(crime, draw), XpGain(crime))
            ELSE lost(XpGainFailed(crime), NULL)

(***************************** the handler *********************************)
\* SELECT * FROM users WHERE id = $1, and in the revisions that test jail
\* before they load the crime, the jail check
Start(i, p, c) ==
  /\ ~InFlight(i)
  /\ nreq < MaxReqs
  /\ nreq' = nreq + 1
  /\ LET r == [IdleReq EXCEPT !.p = p, !.c = c]
     IN Put(i,
          IF p \notin Players THEN UserNotFound(r)
          ELSE LET u == [r EXCEPT !.user = users[p], !.pc = "loadCrime"]
               IN IF rev \in {"LastCrimes", "Cooldowns"} /\ JailedAt(users[p], AppNow)
                  THEN Jailed(u)
                  ELSE u)
  /\ UNCHANGED <<rev, dbAhead, economy, now, crimes, users, cooldown_rows>>

\* SELECT * FROM crimes WHERE id = $1, then the gates and the roll that the
\* revision runs before its next statement
LoadCrime(i) ==
  /\ req[i].pc = "loadCrime"
  /\ LET r == req[i]
         t == AppNow
     IN \E roll \in Rolls, draw \in Draws, t2 \in Reread(t) :
        Put(i,
          IF r.c \notin CrimeIds THEN CrimeNotFound(r)
          ELSE LET crime == crimes[r.c]
                   rc == [r EXCEPT !.crime = crime]
               IN CASE rev = "LastCrimes" ->
                         IF OnCooldownAt(r.user.last_crimes[r.c], crime, t)
                         THEN OnCooldown(rc, t, t2,
                                WaitTime(TimeOf(r.user.last_crimes[r.c])
                                         + crime.cooldown_seconds * TicksPerSec, t2))
                         ELSE Rolled(r, crime, roll, draw, t)
                    [] rev = "Cooldowns" -> [rc EXCEPT !.pc = "loadCooldown"]
                    [] rev = "LastCrime" ->
                         IF JailedAt(r.user, t) THEN Jailed(rc)
                         ELSE IF OnCooldownAt(r.user.last_crime, crime, t)
                         THEN OnCooldown(rc, t, t, NULL)
                         ELSE Rolled(r, crime, roll, draw, t)
                    [] rev = "Unlock" ->
                         IF JailedAt(r.user, t) THEN Jailed(rc)
                         ELSE [rc EXCEPT !.pc = "loadCooldown"]
                    [] OTHER ->
                         IF OnCooldownFromZero(r.user.last_crimes[r.c], crime, t)
                         THEN OnCooldown(rc, t, t,
                                WaitTime(TimeOf(r.user.last_crimes[r.c])
                                         + crime.cooldown_seconds * TicksPerSec, t))
                         ELSE Rolled(r, crime, roll, draw, t))
  /\ UNCHANGED <<rev, dbAhead, economy, now, crimes, users, cooldown_rows, nreq>>

\* last_attempt of a row of user_crime_cooldowns: no statement of any revision
\* stores one, so new Date(rows[0].last_attempt) is new Date(null)
LastAttemptOf(row) == NULL

\* SELECT * FROM user_crime_cooldowns WHERE user_id = $1 AND crime_id = $2,
\* then the cooldown gate and the roll
LoadCooldown(i) ==
  /\ req[i].pc = "loadCooldown"
  /\ LET r == [req[i] EXCEPT !.hasRow = (cooldown_rows[req[i].p][req[i].c] # {})]
         rows == cooldown_rows[req[i].p][req[i].c]
         t == AppNow
     IN \E roll \in Rolls, draw \in Draws, t2 \in Reread(t),
           row \in IF rows = {} THEN {NULL} ELSE rows :
        Put(i,
          IF rev = "Cooldowns"
          THEN IF r.hasRow
                  /\ TimeOf(LastAttemptOf(row)) + r.crime.cooldown_seconds * TicksPerSec > t
               THEN OnCooldown(r, t, t2,
                      WaitTime(TimeOf(LastAttemptOf(row))
                               + r.crime.cooldown_seconds * TicksPerSec, t2))
               ELSE Rolled(r, r.crime, roll, draw, t)
          ELSE IF r.hasRow /\ NotYetAvailable(row, t)
               THEN OnCooldown(r, t, t2, WaitTime(row, t2))
               ELSE Rolled(r, r.crime, roll, draw, t))
  /\ UNCHANGED <<rev, dbAhead, economy, now, crimes, users, cooldown_rows, nreq>>

\* UPDATE users SET jail_until=$1 WHERE id=$2  (unlock revision, caught)
JailUpdate(i) ==
  /\ req[i].pc = "jailUpdate"
  /\ users' = [users EXCEPT ![req[i].p].jail_until = req[i].jail_until]
  /\ Put(i, [req[i] EXCEPT !.pc = "update"])
  /\ UNCHANGED <<rev, dbAhead, economy, now, crimes, cooldown_rows, nreq>>

\* (mutant) a failure counted in total_crimes only
CountedInTotalOnly(u, r) ==
  IF r.success
  THEN [u EXCEPT !.money = @ + r.reward, !.total_crimes = @ + 1,
                 !.successful_crimes = @ + 1]
  ELSE [u EXCEPT !.total_crimes = @ + 1]

\* money = money + $1, total_crimes = total_crimes + 1 and
\* successful_crimes = successful_crimes + 1 of the UPDATE after a success,
\* total_crimes = total_crimes + 1 and unsuccessful_crimes =
\* unsuccessful_crimes + 1 of the UPDATE after a failure
Counted(u, r) ==
  IF r.success
  THEN [u EXCEPT !.money = @ + r.reward, !.total_crimes = @ + 1,
                 !.successful_crimes = @ + 1]
  ELSE [u EXCEPT !.total_crimes = @ + 1, !.unsuccessful_crimes = @ + 1]

\* (mutant) the map read by the handler's SELECT, with the entry of the crime
RecordedInSnapshot(u, r) == [r.user.last_crimes EXCEPT ![r.c] = DbNow]

\* jsonb_set(COALESCE(last_crimes, '{}'), '{crimeId}', to_jsonb(NOW()::text))
\* and COALESCE(last_crimes, '{}') || jsonb_build_object(crimeId, NOW()): the
\* map of the row the UPDATE finds, with the entry of the crime replaced
RecordedIn(u, r) == [u.last_crimes EXCEPT ![r.c] = DbNow]

\* the row the revision's UPDATE users ... WHERE id = $n leaves
UpdatedRow(u, r) ==
  LET counted == Counted(u, r)
      jailed == IF r.success THEN counted
                ELSE [counted EXCEPT !.jail_until = r.jail_until]
  IN CASE rev = "LastCrimes" ->
            [jailed EXCEPT !.points = @ + r.gain, !.last_crimes = RecordedIn(u, r)]
       [] rev = "Cooldowns" ->
            [jailed EXCEPT !.xp = @ + r.gain]
       [] rev = "LastCrime" ->
            [jailed EXCEPT !.last_crime = DbNow]
       [] rev = "Unlock" -> counted
       [] OTHER ->
            [counted EXCEPT !.xp = @ + r.gain, !.last_crimes = RecordedIn(u, r)]

\* UPDATE users SET ... WHERE id = $n, and in the unlock revision the
\* nextAvailable computed when the statement returns.  Where the cooldown is
\* part of this statement, only the SELECT for the response follows.
UpdateUser(i) ==
  /\ req[i].pc = "update"
  /\ users' = [users EXCEPT ![req[i].p] = UpdatedRow(@, req[i])]
  /\ Put(i,
       CASE rev = "Cooldowns" -> [req[i] EXCEPT !.pc = "cooldownWrite"]
         [] rev = "Unlock" ->
              [req[i] EXCEPT !.pc = "cooldownWrite",
                             !.nextAvailable = JailUntil(req[i].crime, AppNow)]
         [] rev = "XpRank" -> [req[i] EXCEPT !.pc = "reselect"]
         [] OTHER -> [req[i] EXCEPT !.pc = "done"])
  /\ UNCHANGED <<rev, dbAhead, economy, now, crimes, cooldown_rows, nreq>>

\* INSERT ... ON CONFLICT (user_id, crime_id): user_crime_cooldowns has no
\* unique constraint on (user_id, crime_id), so Postgres rejects the statement
UpsertRejected == TRUE

\* the rows of (user, crime) after the unlock revision's UPDATE or INSERT
WrittenRows(rows, r) ==
  IF r.hasRow
  THEN IF rows = {} THEN {} ELSE {r.nextAvailable}
  ELSE rows \cup {r.nextAvailable}

\* the cooldown write that follows the users UPDATE
CooldownWrite(i) ==
  /\ req[i].pc = "cooldownWrite"
  /\ IF rev = "Cooldowns" /\ UpsertRejected
     THEN /\ Put(i, [req[i] EXCEPT !.pc = "error"])
          /\ UNCHANGED cooldown_rows
     ELSE /\ cooldown_rows' =
               [cooldown_rows EXCEPT ![req[i].p][req[i].c] = WrittenRows(@, req[i])]
          /\ Put(i, [req[i] EXCEPT !.pc = "done"])
  /\ UNCHANGED <<rev, dbAhead, economy, now, crimes, users, nreq>>

\* SELECT * FROM users WHERE id = $1 of the XP revision, which computes the
\* rank from it
Reselect(i) ==
  /\ req[i].pc = "reselect"
  /\ LET updatedUser == users[req[i].p]
         newRank == getRank(updatedUser.xp)
     IN Put(i,
          IF newRank # updatedUser.rank
          THEN [req[i] EXCEPT !.pc = "rankUpdate", !.newRank = newRank]
          ELSE [req[i] EXCEPT !.pc = "done"])
  /\ UNCHANGED <<rev, dbAhead, economy, now, crimes, users, cooldown_rows, nreq>>

\* UPDATE users SET rank = $1 WHERE id = $2
RankUpdate(i) ==
  /\ req[i].pc = "rankUpdate"
  /\ users' = [users EXCEPT ![req[i].p].rank = req[i].newRank]
  /\ Put(i, [req[i] EXCEPT !.pc = "done"])
  /\ UNCHANGED <<rev, dbAhead, economy, now, crimes, cooldown_rows, nreq>>

(***************************** environment *********************************)
\* the clock advances
Tick ==
  /\ now < MaxTime
  /\ now' = now + 1
  /\ UNCHANGED <<rev, dbAhead, economy, crimes, users, cooldown_rows, req, resp, nreq>>

\* another revision of the server is started on the same database, after the
\* running one has answered a request
Deploy(r) ==
  /\ r # rev
  /\ resp.pc # "idle"
  /\ \A i \in Slots : ~InFlight(i)
  /\ rev' = r
  /\ resp' = IdleReq
  /\ UNCHANGED <<now, dbAhead, economy, crimes, users, cooldown_rows, req, nreq>>

\* one step of the handler of the request in slot i, once started
Step(i) ==
  \/ LoadCrime(i)
  \/ LoadCooldown(i)
  \/ JailUpdate(i)
  \/ UpdateUser(i)
  \/ CooldownWrite(i)
  \/ Reselect(i)
  \/ RankUpdate(i)

\* the k-th request of a behaviour arrives in slot k
Arrive(i, p, c) == i = nreq + 1 /\ Start(i, p, c)

\* concurrent requests against one deployed revision
Next ==
  \/ \E i \in Slots, p \in UserIds, c \in CrimeReqIds : Arrive(i, p, c)
  \/ \E i \in Slots : Step(i)
  \/ Tick

Spec == Init /\ [][Next]_vars

\* one request at a time, across redeployments
NextSeq ==
  \/ \E p \in Players, c \in CrimeIds : Start(1, p, c)
  \/ Step(1)
  \/ Tick
  \/ \E r \in Revisions : Deploy(r)

SpecSeq == Init /\ [][NextSeq]_vars

\* requests are served, one at a time, until MaxTime; the clock is followed
\* for as long as a jail sentence or a cooldown lasts, which is no longer than
\* LastExpiry for one written by MaxTime
LastExpiry == MaxTime + LongCooldown * TicksPerSec

\* the gates of the deployed revision, applied to what is stored for player p
\* and crime c at the current time, reject
LockedOut(p, c) ==
  CASE rev = "LastCrimes" ->
         \/ JailedAt(users[p], AppNow)
         \/ OnCooldownAt(users[p].last_crimes[c], crimes[c], AppNow)
    [] rev = "Cooldowns" ->
         \/ JailedAt(users[p], AppNow)
         \/ \E row \in cooldown_rows[p][c] :
              TimeOf(LastAttemptOf(row)) + crimes[c].cooldown_seconds * TicksPerSec
                > AppNow
    [] rev = "LastCrime" ->
         \/ JailedAt(users[p], AppNow)
         \/ OnCooldownAt(users[p].last_crime, crimes[c], AppNow)
    [] rev = "Unlock" ->
         \/ JailedAt(users[p], AppNow)
         \/ \E row \in cooldown_rows[p][c] : NotYetAvailable(row, AppNow)
    [] OTHER -> OnCooldownFromZero(users[p].last_crimes[c], crimes[c], AppNow)

StartLive(p, c) == now <= MaxTime /\ Start(1, p, c)

StepLive == now <= MaxTime /\ Step(1)

TickLive ==
  /\ now < LastExpiry
  /\ now < MaxTime \/ \E p \in Players, c \in CrimeIds : LockedOut(p, c)
  /\ now' = now + 1
  /\ UNCHANGED <<rev, dbAhead, economy, crimes, users, cooldown_rows, req, resp, nreq>>

NextLive ==
  \/ \E p \in Players, c \in CrimeIds : StartLive(p, c)
  \/ StepLive
  \/ TickLive

\* time does not stop while a lock-out lasts
SpecLive == Init /\ [][NextLive]_vars /\ WF_vars(TickLive)

\* the xp of a player who has played for a while: each threshold of RANKS and
\* the value just below it
XpSamples == {0} \cup UNION { {RANKS[k].xp - 1, RANKS[k].xp} : k \in 2 .. Len(RANKS) }

\* the two revisions that add to xp, serving a player of some standing from a
\* catalog whose crimes can succeed and come off cooldown
InitRank ==
  /\ rev \in {"Cooldowns", "XpRank"}
  /\ now = StartTime
  /\ dbAhead = 0
  /\ crimes \in {cat \in Catalogs : /\ cat[2].success_rate > 0
                                    /\ cat[2].cooldown_seconds < LongCooldown}
  /\ \E x \in XpSamples :
       users = [p \in Players |-> [NewUser EXCEPT !.xp = x, !.rank = getRank(x)]]
  /\ cooldown_rows = [p \in Players |-> [c \in CrimeIds |-> {}]]
  /\ req = [i \in Slots |-> IdleReq]
  /\ resp = IdleReq
  /\ nreq = 0
  /\ EconomyIdle

NextRank ==
  \/ \E p \in Players, c \in CrimeIds : Start(1, p, c)
  \/ LoadCrime(1)
  \/ LoadCooldown(1)
  \/ UpdateUser(1)
  \/ CooldownWrite(1)
  \/ Reselect(1)
  \/ RankUpdate(1)
  \/ Tick

SpecRank == InitRank /\ [][NextRank]_vars

\* a deployment whose database runs on another machine, with its clock ahead
\* of the application's or not, and whose catalog an admin has edited
ClockSkews == {0, 1}

InitSkew ==
  /\ rev \in Revisions
  /\ now = StartTime
  /\ dbAhead \in ClockSkews
  /\ crimes \in EditedCatalogs
  /\ users = [p \in Players |-> NewUser]
  /\ cooldown_rows = [p \in Players |-> [c \in CrimeIds |-> {}]]
  /\ req = [i \in Slots |-> IdleReq]
  /\ resp = IdleReq
  /\ nreq = 0
  /\ EconomyIdle

\* one request at a time
NextOne ==
  \/ \E p \in Players, c \in CrimeIds : Start(1, p, c)
  \/ Step(1)
  \/ Tick

SpecSkew == InitSkew /\ [][NextOne]_vars

(***************************** the bank ************************************)
\* the revisions of POST /bank/deposit and POST /bank/withdraw: one conditional
\* UPDATE; parseInt, SELECT, check, UPDATE; SELECT, check, UPDATE
BankRevisions == {"Conditional", "ParseInt", "Validated"}

\* amounts a request body can carry
Amounts == {Num(0 - 5), Num(0), Num(5), Num(10), NotANumber}

\* amt <= 0 and balance < amt in JavaScript: false when amt is NaN (parseInt
\* of a text) or a text that is not a number
NotPositive(a) == a.isNum /\ a.n <= 0
Below(balance, a) == a.isNum /\ balance < a.n

\* a slot is free when no handler is running in it; a finished request stays
\* in its slot, as the answer sent, until the slot is used again
Busy(i) == jobs[i].pc \notin {"idle", "done"}

NewJob(kind, caller, a) ==
  [IdleJob EXCEPT !.kind = kind, !.caller = caller, !.amount = a]
Answer(job, outcome) == [job EXCEPT !.pc = "done", !.outcome = outcome]

\* SET money = money - $1, bank = bank + $1 and its opposite
Deposited(acc, n) ==
  [acc EXCEPT !.money = @ - n, !.bank_balance = @ + n]
Withdrawn(acc, n) ==
  [acc EXCEPT !.money = @ + n, !.bank_balance = @ - n]

\* POST /bank/deposit up to its first UPDATE.  In the oldest revision this is
\* the whole handler: UPDATE ... WHERE id = $2 AND money >= $1, which Postgres
\* rejects when $1 is not an integer, and "Deposit complete" whatever it did.
Deposit(i, m, a) ==
  /\ rev \in BankRevisions
  /\ ~Busy(i)
  /\ nreq < MaxReqs
  /\ nreq' = nreq + 1
  /\ LET job == NewJob("deposit", m, a)
     IN CASE rev = "Conditional" ->
               IF ~a.isNum
               THEN jobs' = [jobs EXCEPT ![i] = Answer(job, "error")]
                    /\ UNCHANGED accounts
               ELSE /\ jobs' = [jobs EXCEPT ![i] = Answer(job, "ok")]
                    /\ accounts' =
                         IF m \in Members /\ accounts[m].money >= a.n
                         THEN [accounts EXCEPT ![m] = Deposited(@, a.n)]
                         ELSE accounts
          [] rev = "ParseInt" ->
               /\ UNCHANGED accounts
               /\ jobs' = [jobs EXCEPT ![i] =
                    IF NotPositive(a) THEN Answer(job, "invalid")
                    ELSE IF m \notin Members THEN Answer(job, "error")
                    ELSE IF Below(accounts[m].money, a) THEN Answer(job, "short")
                    ELSE [job EXCEPT !.pc = "update"]]
          [] OTHER ->
               /\ UNCHANGED accounts
               /\ jobs' = [jobs EXCEPT ![i] =
                    IF m \notin Members \/ NotPositive(a)
                       \/ Below(accounts[m].money, a)
                    THEN Answer(job, "invalid")
                    ELSE [job EXCEPT !.pc = "update"]]
  /\ UNCHANGED <<rev, now, dbAhead, crimes, users, cooldown_rows, req, resp,
                 user_properties>>

\* POST /bank/withdraw up to its first UPDATE
Withdraw(i, m, a) ==
  /\ rev \in BankRevisions
  /\ ~Busy(i)
  /\ nreq < MaxReqs
  /\ nreq' = nreq + 1
  /\ LET job == NewJob("withdraw", m, a)
     IN CASE rev = "Conditional" ->
               IF ~a.isNum
               THEN jobs' = [jobs EXCEPT ![i] = Answer(job, "error")]
                    /\ UNCHANGED accounts
               ELSE /\ jobs' = [jobs EXCEPT ![i] = Answer(job, "ok")]
                    /\ accounts' =
                         IF m \in Members /\ accounts[m].bank_balance >= a.n
                         THEN [accounts EXCEPT ![m] = Withdrawn(@, a.n)]
                         ELSE accounts
          [] rev = "ParseInt" ->
               /\ UNCHANGED accounts
               /\ jobs' = [jobs EXCEPT ![i] =
                    IF NotPositive(a) THEN Answer(job, "invalid")
                    ELSE IF m \notin Members THEN Answer(job, "error")
                    ELSE IF Below(accounts[m].bank_balance, a) THEN Answer(job, "short")
                    ELSE [job EXCEPT !.pc = "update"]]
          [] OTHER ->
               /\ UNCHANGED accounts
               /\ jobs' = [jobs EXCEPT ![i] =
                    IF m \notin Members \/ NotPositive(a)
                       \/ Below(accounts[m].bank_balance, a)
                    THEN Answer(job, "invalid")
                    ELSE [job EXCEPT !.pc = "update"]]
  /\ UNCHANGED <<rev, now, dbAhead, crimes, users, cooldown_rows, req, resp,
                 user_properties>>

\* UPDATE users SET money = money -/+ $1, bank_balance = bank_balance +/- $1
\* WHERE id = $2 of the later revisions, which Postgres rejects when $1 is
\* NaN or a text; the SELECT for the answer follows
BankUpdate(i) ==
  /\ jobs[i].pc = "update"
  /\ jobs[i].kind \in {"deposit", "withdraw"}
  /\ LET job == jobs[i]
     IN IF ~job.amount.isNum
        THEN jobs' = [jobs EXCEPT ![i] = Answer(job, "error")] /\ UNCHANGED accounts
        ELSE /\ jobs' = [jobs EXCEPT ![i] = Answer(job, "ok")]
             /\ accounts' = [accounts EXCEPT ![job.caller] =
                   IF job.kind = "deposit" THEN Deposited(@, job.amount.n)
                   ELSE Withdrawn(@, job.amount.n)]
  /\ UNCHANGED <<rev, now, dbAhead, crimes, users, cooldown_rows, req, resp,
                 nreq, user_properties>>

\* balances a player can have before the requests
StartBalances == {0, 10}

InitBank ==
  /\ rev \in BankRevisions
  /\ now = StartTime
  /\ dbAhead = 0
  /\ crimes \in {cat \in Catalogs : cat[2].success_rate = 0}
  /\ users = [p \in Players |-> NewUser]
  /\ cooldown_rows = [p \in Players |-> [c \in CrimeIds |-> {}]]
  /\ req = [i \in Slots |-> IdleReq]
  /\ resp = IdleReq
  /\ nreq = 0
  /\ \E cash \in StartBalances, saved \in StartBalances :
       accounts = [m \in Members |->
                    [NewAccount EXCEPT !.money = cash, !.bank_balance = saved]]
  /\ user_properties = {}
  /\ jobs = [i \in Slots |-> IdleJob]

\* concurrent deposits and withdrawals
NextBank ==
  \/ \E i \in Slots, m \in MemberIds, a \in Amounts : Deposit(i, m, a)
  \/ \E i \in Slots, m \in MemberIds, a \in Amounts : Withdraw(i, m, a)
  \/ \E i \in Slots : BankUpdate(i)

SpecBank == InitBank /\ [][NextBank]_vars

(***************************** the transfer ********************************)
\* POST /bank/transfer up to the SELECT of the sender: parseInt, amt <= 0,
\* sender not found, user.bank_balance < amt
Transfer(i, m, to, a) ==
  /\ rev = "ParseInt"
  /\ ~Busy(i)
  /\ nreq < MaxReqs
  /\ nreq' = nreq + 1
  /\ LET job == [NewJob("transfer", m, a) EXCEPT !.target = to]
     IN jobs' = [jobs EXCEPT ![i] =
          IF NotPositive(a) THEN Answer(job, "invalid")
          ELSE IF m \notin Members THEN Answer(job, "noSender")
          ELSE IF Below(accounts[m].bank_balance, a) THEN Answer(job, "short")
          ELSE [job EXCEPT !.pc = "receiver"]]
  /\ UNCHANGED <<rev, now, dbAhead, crimes, users, cooldown_rows, req, resp,
                 accounts, user_properties>>

\* SELECT * FROM users WHERE username = $1
TransferReceiver(i) ==
  /\ jobs[i].pc = "receiver"
  /\ jobs' = [jobs EXCEPT ![i] =
       IF jobs[i].target \notin Members THEN Answer(jobs[i], "noReceiver")
       ELSE [jobs[i] EXCEPT !.pc = "debit"]]
  /\ UNCHANGED <<rev, now, dbAhead, crimes, users, cooldown_rows, req, resp,
                 nreq, accounts, user_properties>>

\* UPDATE users SET bank_balance = bank_balance - $1 WHERE id = $2, which
\* Postgres rejects when $1 is NaN
TransferDebit(i) ==
  /\ jobs[i].pc = "debit"
  /\ IF ~jobs[i].amount.isNum
     THEN jobs' = [jobs EXCEPT ![i] = Answer(jobs[i], "error")] /\ UNCHANGED accounts
     ELSE /\ jobs' = [jobs EXCEPT ![i].pc = "credit"]
          /\ accounts' = [accounts EXCEPT ![jobs[i].caller].bank_balance =
                            @ - jobs[i].amount.n]
  /\ UNCHANGED <<rev, now, dbAhead, crimes, users, cooldown_rows, req, resp,
                 nreq, user_properties>>

\* UPDATE users SET bank_balance = bank_balance + $1 WHERE id = $2, and the
\* SELECT for the answer
TransferCredit(i) ==
  /\ jobs[i].pc = "credit"
  /\ jobs' = [jobs EXCEPT ![i] = Answer(jobs[i], "ok")]
  /\ accounts' = [accounts EXCEPT ![jobs[i].target].bank_balance =
                    @ + jobs[i].amount.n]
  /\ UNCHANGED <<rev, now, dbAhead, crimes, users, cooldown_rows, req, resp,
                 nreq, user_properties>>

InitTransfer == InitBank /\ rev = "ParseInt"

\* concurrent transfers
NextTransfer ==
  \/ \E i \in Slots, m \in MemberIds, to \in MemberIds, a \in Amounts :
       Transfer(i, m, to, a)
  \/ \E i \in Slots : TransferReceiver(i)
  \/ \E i \in Slots : TransferDebit(i)
  \/ \E i \in Slots : TransferCredit(i)

SpecTransfer == InitTransfer /\ [][NextTransfer]_vars

(***************************** the marketplace *****************************)
\* a row of user_properties
OwnedRow(id, q, owner) ==
  [id |-> id, property_id |-> q, owner_id |-> owner, is_for_sale |-> FALSE,
   sale_price |-> NULL]

\* the rows of user_properties of a property, and the one rows[0] of a SELECT
\* without ORDER BY on them: the row of least id
RowsOf(q) == {row \in user_properties : row.property_id = q}
FirstRow(q) == CHOOSE row \in RowsOf(q) : \A other \in RowsOf(q) : row.id <= other.id

\* the id a SERIAL column gives the next row
NextRowId == Cardinality(user_properties) + 1

\* prices an owner can ask
SalePrices == {5, 20}

\* POST /properties/sell: SELECT ... WHERE property_id = $1 AND owner_id = $2
Sell(i, m, q, price) ==
  /\ rev = "Market"
  /\ ~Busy(i)
  /\ nreq < MaxReqs
  /\ nreq' = nreq + 1
  /\ LET job == [NewJob("sell", m, Num(0)) EXCEPT !.target = q, !.price = price]
     IN jobs' = [jobs EXCEPT ![i] =
          IF \E row \in RowsOf(q) : row.owner_id = m
          THEN [job EXCEPT !.pc = "list"]
          ELSE Answer(job, "notOwner")]
  /\ UNCHANGED <<rev, now, dbAhead, crimes, users, cooldown_rows, req, resp,
                 accounts, user_properties>>

\* UPDATE user_properties SET is_for_sale = true, sale_price = $1
\* WHERE property_id = $2
SellList(i) ==
  /\ jobs[i].pc = "list"
  /\ user_properties' =
       {IF row.property_id = jobs[i].target
        THEN [row EXCEPT !.is_for_sale = TRUE, !.sale_price = jobs[i].price]
        ELSE row : row \in user_properties}
  /\ jobs' = [jobs EXCEPT ![i] = Answer(jobs[i], "ok")]
  /\ UNCHANGED <<rev, now, dbAhead, crimes, users, cooldown_rows, req, resp,
                 nreq, accounts>>

\* POST /properties/buy: SELECT * FROM properties WHERE id = $1
Buy(i, m, q) ==
  /\ rev \in {"Market", "AlreadyOwned"}
  /\ ~Busy(i)
  /\ nreq < MaxReqs
  /\ nreq' = nreq + 1
  /\ LET job == [NewJob("buy", m, Num(0)) EXCEPT !.target = q]
     IN jobs' = [jobs EXCEPT ![i] =
          IF q \notin PropertyIds THEN Answer(job, "noProperty")
          ELSE [job EXCEPT !.pc = "owner", !.price = base_price[q]]]
  /\ UNCHANGED <<rev, now, dbAhead, crimes, users, cooldown_rows, req, resp,
                 accounts, user_properties>>

\* SELECT * FROM user_properties WHERE property_id = $1: in the marketplace a
\* property on sale is bought from its owner at sale_price, an unowned one from
\* the system at base_price; the other revision answers "Already owned"
BuyOwner(i) ==
  /\ jobs[i].pc = "owner"
  /\ LET job == jobs[i]
         q == job.target
     IN jobs' = [jobs EXCEPT ![i] =
          IF rev = "Market"
          THEN IF RowsOf(q) # {}
               THEN IF ~FirstRow(q).is_for_sale THEN Answer(job, "notForSale")
                    ELSE [job EXCEPT !.pc = "debit", !.price = FirstRow(q).sale_price,
                                     !.seller = FirstRow(q).owner_id]
               ELSE [job EXCEPT !.pc = "debit"]
          ELSE IF RowsOf(q) # {} THEN Answer(job, "alreadyOwned")
               ELSE [job EXCEPT !.pc = "funds"]]
  /\ UNCHANGED <<rev, now, dbAhead, crimes, users, cooldown_rows, req, resp,
                 nreq, accounts, user_properties>>

\* UPDATE users SET money = money - $1 WHERE id = $2 AND money >= $1, whose
\* row count the handler does not look at
BuyDebit(i) ==
  /\ jobs[i].pc = "debit"
  /\ rev = "Market"
  /\ LET job == jobs[i]
         can == accounts[job.caller].money >= job.price
     IN /\ accounts' = IF can
                       THEN [accounts EXCEPT ![job.caller].money = @ - job.price]
                       ELSE accounts
        /\ jobs' = [jobs EXCEPT ![i] =
             [job EXCEPT !.paid = can,
                         !.pc = IF job.seller = 0 THEN "insert" ELSE "credit"]]
  /\ UNCHANGED <<rev, now, dbAhead, crimes, users, cooldown_rows, req, resp,
                 nreq, user_properties>>

\* UPDATE users SET money = money + $1 WHERE id = $2, for the previous owner
BuyCredit(i) ==
  /\ jobs[i].pc = "credit"
  /\ accounts' = [accounts EXCEPT ![jobs[i].seller].money = @ + jobs[i].price]
  /\ jobs' = [jobs EXCEPT ![i].pc = "own"]
  /\ UNCHANGED <<rev, now, dbAhead, crimes, users, cooldown_rows, req, resp,
                 nreq, user_properties>>

\* UPDATE user_properties SET owner_id = $1, is_for_sale = false,
\* sale_price = NULL WHERE property_id = $2
BuyOwn(i) ==
  /\ jobs[i].pc = "own"
  /\ user_properties' =
       {IF row.property_id = jobs[i].target
        THEN [row EXCEPT !.owner_id = jobs[i].caller, !.is_for_sale = FALSE,
                         !.sale_price = NULL]
        ELSE row : row \in user_properties}
  /\ jobs' = [jobs EXCEPT ![i] = Answer(jobs[i], "ok")]
  /\ UNCHANGED <<rev, now, dbAhead, crimes, users, cooldown_rows, req, resp,
                 nreq, accounts>>

\* INSERT INTO user_properties (property_id, owner_id) VALUES ($1, $2)
BuyInsert(i) ==
  /\ jobs[i].pc = "insert"
  /\ user_properties' =
       user_properties \cup {OwnedRow(NextRowId, jobs[i].target, jobs[i].caller)}
  /\ jobs' = [jobs EXCEPT ![i] = Answer(jobs[i], "ok")]
  /\ UNCHANGED <<rev, now, dbAhead, crimes, users, cooldown_rows, req, resp,
                 nreq, accounts>>

\* the property is unowned, or the second player has bought it from the
\* system and may have put it on sale
Listings ==
  {{}, {OwnedRow(1, 1, 2)}}
  \cup {{[OwnedRow(1, 1, 2) EXCEPT !.is_for_sale = TRUE, !.sale_price = price]} :
          price \in SalePrices}

InitMarket ==
  /\ rev = "Market"
  /\ now = StartTime
  /\ dbAhead = 0
  /\ crimes \in {cat \in Catalogs : cat[2].success_rate = 0}
  /\ users = [p \in Players |-> NewUser]
  /\ cooldown_rows = [p \in Players |-> [c \in CrimeIds |-> {}]]
  /\ req = [i \in Slots |-> IdleReq]
  /\ resp = IdleReq
  /\ nreq = 0
  /\ accounts \in [Members -> {[NewAccount EXCEPT !.money = cash] :
                                cash \in StartBalances}]
  /\ user_properties \in Listings
  /\ jobs = [i \in Slots |-> IdleJob]

\* concurrent requests of the marketplace
NextMarket ==
  \/ \E i \in Slots, m \in Members, q \in PropertyIds, price \in SalePrices :
       Sell(i, m, q, price)
  \/ \E i \in Slots : SellList(i)
  \/ \E i \in Slots, m \in Members, q \in PropertyIds \cup {NoSuchProperty} :
       Buy(i, m, q)
  \/ \E i \in Slots : BuyOwner(i)
  \/ \E i \in Slots : BuyDebit(i)
  \/ \E i \in Slots : BuyCredit(i)
  \/ \E i \in Slots : BuyOwn(i)
  \/ \E i \in Slots : BuyInsert(i)

SpecMarket == InitMarket /\ [][NextMarket]_vars

(***************************** the "Already owned" revision ****************)
\* SELECT * FROM users WHERE id = $1 and user.rows[0].money < base_price
BuyFunds(i) ==
  /\ jobs[i].pc = "funds"
  /\ jobs' = [jobs EXCEPT ![i] =
       IF accounts[jobs[i].caller].money < jobs[i].price
       THEN Answer(jobs[i], "short")
       ELSE [jobs[i] EXCEPT !.pc = "pay"]]
  /\ UNCHANGED <<rev, now, dbAhead, crimes, users, cooldown_rows, req, resp,
                 nreq, accounts, user_properties>>

\* UPDATE users SET money = money - $1 WHERE id = $2
BuyPay(i) ==
  /\ jobs[i].pc = "pay"
  /\ accounts' = [accounts EXCEPT ![jobs[i].caller].money = @ - jobs[i].price]
  /\ jobs' = [jobs EXCEPT ![i] = [jobs[i] EXCEPT !.pc = "insert", !.paid = TRUE]]
  /\ UNCHANGED <<rev, now, dbAhead, crimes, users, cooldown_rows, req, resp,
                 nreq, user_properties>>

InitOwned ==
  /\ rev = "AlreadyOwned"
  /\ now = StartTime
  /\ dbAhead = 0
  /\ crimes \in {cat \in Catalogs : cat[2].success_rate = 0}
  /\ users = [p \in Players |-> NewUser]
  /\ cooldown_rows = [p \in Players |-> [c \in CrimeIds |-> {}]]
  /\ req = [i \in Slots |-> IdleReq]
  /\ resp = IdleReq
  /\ nreq = 0
  /\ accounts \in [Members -> {[NewAccount EXCEPT !.money = cash] :
                                cash \in StartBalances}]
  /\ user_properties = {}
  /\ jobs = [i \in Slots |-> IdleJob]

\* concurrent purchases
NextOwned ==
  \/ \E i \in Slots, m \in Members, q \in PropertyIds \cup {NoSuchProperty} :
       Buy(i, m, q)
  \/ \E i \in Slots : BuyOwner(i)
  \/ \E i \in Slots : BuyFunds(i)
  \/ \E i \in Slots : BuyPay(i)
  \/ \E i \in Slots : BuyInsert(i)

SpecOwned == InitOwned /\ [][NextOwned]_vars

(***************************** the admin endpoints *************************)
\* the revisions of the admin endpoints: give-money, jail-user, release-user
\* and set-role; update-user and update-crime
AdminRevisions == {"RoleRoutes", "UpdateRoutes"}

Roles == {"player", "mod", "admin"}

\* ["admin", "mod"].includes(role) of a caller id, false when the id has no row
isAdmin(m) == m \in Members /\ accounts[m].role \in {"admin", "mod"}

\* minutes * 60000 ms of /admin/jail-user
JailMinutes == {1}
MinuteTicks == 60 * TicksPerSec

\* values an admin request can carry
Grants == {5}
BulletCounts == {0, 5}
CrimeEdits == {CrimeRow(2, kind) : kind \in CooldownKinds}

\* POST /admin/give-money: SELECT role FROM users WHERE id = $1
GiveMoney(i, m, t, n) ==
  /\ rev = "RoleRoutes"
  /\ ~Busy(i)
  /\ nreq < MaxReqs
  /\ nreq' = nreq + 1
  /\ LET job == [NewJob("give-money", m, Num(n)) EXCEPT !.target = t]
     IN jobs' = [jobs EXCEPT ![i] =
          IF isAdmin(m) THEN [job EXCEPT !.pc = "write"]
          ELSE Answer(job, "forbidden")]
  /\ UNCHANGED <<rev, now, dbAhead, crimes, users, cooldown_rows, req, resp,
                 accounts, user_properties>>

\* POST /admin/set-role: SELECT role FROM users WHERE id = $1, admin only
SetRole(i, m, t, role) ==
  /\ rev = "RoleRoutes"
  /\ ~Busy(i)
  /\ nreq < MaxReqs
  /\ nreq' = nreq + 1
  /\ LET job == [NewJob("set-role", m, Num(0)) EXCEPT !.target = t, !.role = role]
     IN jobs' = [jobs EXCEPT ![i] =
          IF m \in Members /\ accounts[m].role = "admin"
          THEN [job EXCEPT !.pc = "write"]
          ELSE Answer(job, "forbidden")]
  /\ UNCHANGED <<rev, now, dbAhead, crimes, users, cooldown_rows, req, resp,
                 accounts, user_properties>>

\* POST /admin/jail-user: the body has no caller id; UPDATE users SET
\* jail_until = $1 WHERE id = $2 with Date.now() + minutes * 60000
JailUser(i, t, minutes) ==
  /\ rev = "RoleRoutes"
  /\ ~Busy(i)
  /\ nreq < MaxReqs
  /\ nreq' = nreq + 1
  /\ jobs' = [jobs EXCEPT ![i] =
       Answer([NewJob("jail-user", 0, Num(minutes)) EXCEPT !.target = t], "ok")]
  /\ accounts' = IF t \in Members
                 THEN [accounts EXCEPT ![t].jail_until = AppNow + minutes * MinuteTicks]
                 ELSE accounts
  /\ UNCHANGED <<rev, now, dbAhead, crimes, users, cooldown_rows, req, resp,
                 user_properties>>

\* POST /admin/release-user: the body has no caller id; UPDATE users SET
\* jail_until = NULL WHERE id = $1
ReleaseUser(i, t) ==
  /\ rev = "RoleRoutes"
  /\ ~Busy(i)
  /\ nreq < MaxReqs
  /\ nreq' = nreq + 1
  /\ jobs' = [jobs EXCEPT ![i] =
       Answer([NewJob("release-user", 0, Num(0)) EXCEPT !.target = t], "ok")]
  /\ accounts' = IF t \in Members
                 THEN [accounts EXCEPT ![t].jail_until = NULL]
                 ELSE accounts
  /\ UNCHANGED <<rev, now, dbAhead, crimes, users, cooldown_rows, req, resp,
                 user_properties>>

\* POST /admin/update-user: await isAdmin(adminId)
AdminUpdateUser(i, m, t, n, bullets, role) ==
  /\ rev = "UpdateRoutes"
  /\ ~Busy(i)
  /\ nreq < MaxReqs
  /\ nreq' = nreq + 1
  /\ LET job == [NewJob("update-user", m, Num(n)) EXCEPT
                   !.target = t, !.bullets = bullets, !.role = role]
     IN jobs' = [jobs EXCEPT ![i] =
          IF isAdmin(m) THEN [job EXCEPT !.pc = "write"]
          ELSE Answer(job, "forbidden")]
  /\ UNCHANGED <<rev, now, dbAhead, crimes, users, cooldown_rows, req, resp,
                 accounts, user_properties>>

\* POST /admin/update-crime: await isAdmin(adminId)
AdminUpdateCrime(i, m, c, row) ==
  /\ rev = "UpdateRoutes"
  /\ ~Busy(i)
  /\ nreq < MaxReqs
  /\ nreq' = nreq + 1
  /\ LET job == [NewJob("update-crime", m, Num(0)) EXCEPT !.target = c, !.row = row]
     IN jobs' = [jobs EXCEPT ![i] =
          IF isAdmin(m) THEN [job EXCEPT !.pc = "write"]
          ELSE Answer(job, "forbidden")]
  /\ UNCHANGED <<rev, now, dbAhead, crimes, users, cooldown_rows, req, resp,
                 accounts, user_properties>>

\* the UPDATE of an authorised admin request, which changes the row with the
\* target id if there is one
AdminWrite(i) ==
  /\ jobs[i].pc = "write"
  /\ LET job == jobs[i]
         t == job.target
     IN /\ jobs' = [jobs EXCEPT ![i] = Answer(job, "ok")]
        /\ accounts' =
             IF t \notin Members \/ job.kind = "update-crime" THEN accounts
             ELSE CASE job.kind = "give-money" ->
                         [accounts EXCEPT ![t].money = @ + job.amount.n]
                    [] job.kind = "set-role" ->
                         [accounts EXCEPT ![t].role = job.role]
                    [] OTHER ->
                         [accounts EXCEPT ![t].money = job.amount.n,
                                          ![t].bullets = job.bullets,
                                          ![t].role = job.role]
        /\ crimes' =
             IF job.kind = "update-crime" /\ t \in CrimeIds
             THEN [crimes EXCEPT ![t] =
                    [@ EXCEPT !.min_reward = job.row.min_reward,
                              !.max_reward = job.row.max_reward,
                              !.success_rate = job.row.success_rate,
                              !.cooldown_seconds = job.row.cooldown_seconds]]
             ELSE crimes
  /\ UNCHANGED <<rev, now, dbAhead, users, cooldown_rows, req, resp, nreq,
                 user_properties>>

\* the role of the first player is whatever the operator has stored
InitAdmin ==
  /\ rev \in AdminRevisions
  /\ now = StartTime
  /\ dbAhead = 0
  /\ crimes \in {cat \in Catalogs : cat[2].success_rate = 0}
  /\ users = [p \in Players |-> NewUser]
  /\ cooldown_rows = [p \in Players |-> [c \in CrimeIds |-> {}]]
  /\ req = [i \in Slots |-> IdleReq]
  /\ resp = IdleReq
  /\ nreq = 0
  /\ \E role \in Roles :
       accounts = [m \in Members |->
                    IF m = 1 THEN [NewAccount EXCEPT !.role = role] ELSE NewAccount]
  /\ user_properties = {}
  /\ jobs = [i \in Slots |-> IdleJob]

\* concurrent admin requests
NextAdmin ==
  \/ \E i \in Slots, m \in MemberIds, t \in Members, n \in Grants :
       GiveMoney(i, m, t, n)
  \/ \E i \in Slots, m \in MemberIds, t \in Members, role \in Roles :
       SetRole(i, m, t, role)
  \/ \E i \in Slots, t \in Members, minutes \in JailMinutes :
       JailUser(i, t, minutes)
  \/ \E i \in Slots, t \in Members : ReleaseUser(i, t)
  \/ \E i \in Slots, m \in MemberIds, t \in Members, n \in Grants,
         bullets \in BulletCounts, role \in Roles :
       AdminUpdateUser(i, m, t, n, bullets, role)
  \/ \E i \in Slots, m \in MemberIds, c \in CrimeIds, row \in CrimeEdits :
       AdminUpdateCrime(i, m, c, row)
  \/ \E i \in Slots : AdminWrite(i)

SpecAdmin == InitAdmin /\ [][NextAdmin]_vars

(***************************** observations ********************************)
\* the requests in flight and the last one answered
Records == {req[i] : i \in Slots} \cup {resp}

\* the handler has rolled: the attempt is resolved, not rejected by a gate
Resolved(r) == r.outcome \in {"Success", "Failure"}

\* the users UPDATE of a resolved attempt has been executed
Committed(r) ==
  Resolved(r) /\ r.pc \in {"cooldownWrite", "reselect", "rankUpdate", "done", "error"}

\* slot i executes its users UPDATE in this step
Commits(i) == req[i].pc = "update" /\ req'[i].pc # "update"

\* slot i answers (or throws) in this step: a handler in flight ends, or a
\* request is answered in the step in which it arrives
Finishes(i) ==
  \/ req[i].pc # "idle" /\ req'[i].pc = "idle"
  \/ nreq' # nreq /\ req' = req

\* the requests other than the one in slot i
Others(i) == {req[j] : j \in Slots \ {i}} \cup {resp}

\* the last-attempt timestamp the deployed revision has stored for each
\* player and crime
StoredLastAttempt ==
  [p \in Players |-> [c \in CrimeIds |->
    CASE rev \in {"LastCrimes", "XpRank"} -> users[p].last_crimes[c]
      [] rev = "LastCrime" -> users[p].last_crime
      [] rev = "Unlock" ->
           IF cooldown_rows[p][c] = {} THEN NULL
           ELSE (CHOOSE a \in cooldown_rows[p][c] : \A b \in cooldown_rows[p][c] : b <= a)
                - crimes[c].cooldown_seconds * TicksPerSec
      [] OTHER -> NULL]]

(***************************** C1 ******************************************)
\* C1: of two requests for the same player and the same crime that both read
\* the player before either committed, at most one commits an outcome: no
\* request commits when another request for the same player and crime, which
\* read the same number of attempts, has already committed.
C1_NoDoubleCommit ==
  [][\A i \in Slots :
       Commits(i) =>
         ~\E b \in Others(i) :
            /\ Committed(b)
            /\ b.p = req[i].p /\ b.c = req[i].c
            /\ b.user.total_crimes = req[i].user.total_crimes]_vars

(***************************** C2 ******************************************)
\* C2: once a request has committed a Failure that set jail_until = J, no
\* concurrent request of the same player on another crime commits before J.
C2_NoCommitWhileJailed ==
  [][\A i \in Slots :
       Commits(i) =>
         ~\E b \in Others(i) :
            /\ Committed(b) /\ b.outcome = "Failure"
            /\ b.p = req[i].p /\ b.c # req[i].c
            /\ req[i].user.total_crimes <= b.user.total_crimes
            /\ b.jail_until # NULL
            /\ users[b.p].jail_until = b.jail_until
            /\ DbNow < b.jail_until]_vars

(***************************** C3 ******************************************)
\* C3: in every revision, a request that loaded a player whose jail_until is
\* after the handler's clock is answered Jailed: it is never resolved.
C3_JailedNeverResolved ==
  \A r \in Records : Resolved(r) => ~JailedAt(r.user, r.tgate)

(***************************** C4 ******************************************)
\* the last attempt on r's crime in the player row r loaded, in the revisions
\* that record one and report the remaining seconds
LoadedLastAttempt(r) ==
  IF rev \in {"LastCrimes", "XpRank"} THEN r.user.last_crimes[r.c] ELSE NULL

\* lastAttempt + cooldown_seconds, in ticks
CooldownEnd(r) ==
  LoadedLastAttempt(r) + r.crime.cooldown_seconds * TicksPerSec

C4_Rejected ==
  \A r \in Records :
    (r.outcome \in {"OnCooldown", "Success", "Failure"}
       /\ LoadedLastAttempt(r) # NULL /\ CooldownEnd(r) > r.twait)
    => /\ r.outcome = "OnCooldown"
       /\ r.wait = Ceil(CooldownEnd(r) - r.twait, TicksPerSec)

C4_Frame ==
  \A i \in Slots :
    (Finishes(i) /\ resp'.outcome = "OnCooldown") => UNCHANGED <<users, cooldown_rows>>

PartlyWritten(r) ==
  \/ r.pc \in {"cooldownWrite", "rankUpdate", "error"}
  \/ r.pc = "update" /\ r.caught /\ rev = "Unlock"

\* C5: an attempt commits its whole outcome as one unit: there is no state in
\* which only part of an attempt's outcome is written, and no attempt ends by
\* an error with its earlier writes committed.
C5_AtomicOutcome == \A r \in Records : ~PartlyWritten(r)

(***************************** C6 ******************************************)
\* C6: when a failed attempt on a crime with cooldown_seconds = d has been
\* answered, the stored jail_until equals now + d, now being the instant stored
\* as the crime's last-attempt timestamp.
C6_JailExact ==
  [][\A i \in Slots :
       (Finishes(i) /\ resp'.outcome = "Failure") =>
         LET L == StoredLastAttempt'[resp'.p][resp'.c]
         IN /\ L # NULL
            /\ users'[resp'.p].jail_until
                 = L + resp'.crime.cooldown_seconds * TicksPerSec]_vars

(***************************** C7 ******************************************)
\* C7: a failed attempt increments total_crimes and unsuccessful_crimes by
\* one, leaves money and successful_crimes unchanged, and has recorded the
\* crime's last-attempt timestamp when it is answered.
C7_FailureEffect ==
  [][\A i \in Slots :
       /\ (Commits(i) /\ req[i].outcome = "Failure") =>
            LET u == users[req[i].p]
                v == users'[req[i].p]
            IN /\ v.total_crimes = u.total_crimes + 1
               /\ v.unsuccessful_crimes = u.unsuccessful_crimes + 1
               /\ v.money = u.money
               /\ v.successful_crimes = u.successful_crimes
       /\ (Finishes(i) /\ resp'.outcome = "Failure") =>
            StoredLastAttempt'[resp'.p][resp'.c] # NULL]_vars

(***************************** C8 ******************************************)
\* C8: a successful attempt increments total_crimes and successful_crimes by
\* one, adds the returned reward to money and the crime's xp_reward to xp,
\* leaves jail_until and unsuccessful_crimes unchanged, and has recorded the
\* crime's last-attempt timestamp when it is answered.
C8_SuccessEffect ==
  [][\A i \in Slots :
       /\ (Commits(i) /\ req[i].outcome = "Success") =>
            LET u == users[req[i].p]
                v == users'[req[i].p]
            IN /\ v.total_crimes = u.total_crimes + 1
               /\ v.successful_crimes = u.successful_crimes + 1
               /\ v.money = u.money + req[i].reward
               /\ v.xp = u.xp + req[i].crime.xp_reward
               /\ v.jail_until = u.jail_until
               /\ v.unsuccessful_crimes = u.unsuccessful_crimes
               /\ rev \in {"LastCrimes", "LastCrime", "XpRank"} =>
                    StoredLastAttempt'[req[i].p][req[i].c] = DbNow
       /\ (Finishes(i) /\ resp'.outcome = "Success") =>
            StoredLastAttempt'[resp'.p][resp'.c] # NULL]_vars

IsCritical(r) == rev = "Unlock" /\ 10 * r.roll < r.crime.success_rate

C10_SuccessIffBelowRate ==
  \A r \in Records :
    Resolved(r) =>
      /\ (r.outcome = "Success") <=> (r.roll < r.crime.success_rate)
      /\ r.crime.success_rate = 0 => r.outcome = "Failure"
      /\ r.crime.success_rate = RollDen => r.outcome = "Success"

\* the smallest draw fails a crime of success_rate 0
C10_Witness ==
  /\ resp.outcome = "Failure"
  /\ resp.crime.success_rate = 0
  /\ resp.roll = 0

(***************************** C11 *****************************************)
\* C11: jail blocks every crime: a request answered while the jail_until of
\* the player row it loaded is still in the future is answered Jailed, whatever
\* crime of the catalog it asks for.
C11_JailIsGlobal ==
  [][\A i \in Slots :
       (Finishes(i) /\ resp'.p \in Players /\ resp'.c \in CrimeIds
          /\ JailedAt(resp'.user, now))
       => resp'.outcome = "Jailed"]_vars

(***************************** C12 *****************************************)
\* C12: cooldowns are per crime: a request of a non-jailed player is not
\* answered OnCooldown when the only attempt the player had committed before it
\* was on another crime.
C12_CooldownPerCrime ==
  [][\A i \in Slots :
       (Finishes(i) /\ resp'.outcome = "OnCooldown" /\ resp'.user.total_crimes = 1
          /\ ~JailedAt(resp'.user, now))
       => ~\E b \in Others(i) :
             /\ Committed(b) /\ b.p = resp'.p /\ b.c # resp'.c
             /\ b.user.total_crimes = 0]_vars

(***************************** C13 *****************************************)
\* C13: in the revisions that keep the per-crime map last_crimes, a request of
\* a non-jailed player who has no entry for the crime is never answered
\* OnCooldown, whatever the time and the cooldown_seconds of the crime.
C13_NoEntryNoCooldown ==
  \A r \in Records :
    (rev \in {"LastCrimes", "XpRank"} /\ r.p \in Players /\ r.c \in CrimeIds
       /\ r.user.last_crimes[r.c] = NULL /\ ~JailedAt(r.user, r.tgate))
    => r.outcome # "OnCooldown"

(***************************** C14 *****************************************)
\* C14: after a resolved attempt on crime c made at time t, no later request
\* of that player on c (one that loaded the player after the attempt was
\* committed) is resolved at a time before t + cooldown_seconds(c).
C14_CooldownPersisted ==
  \A r \in Records : \A b \in Records :
    (Resolved(r) /\ Committed(b) /\ r.p = b.p /\ r.c = b.c
       /\ r.user.total_crimes > b.user.total_crimes)
    => r.tgate >= b.tgate + b.crime.cooldown_seconds * TicksPerSec

(***************************** C15 *****************************************)
\* C15: the jail gate comes first: a request whose loaded player is jailed at
\* the time of the gates is not answered OnCooldown.
C15_JailBeforeCooldown ==
  \A r \in Records : r.outcome = "OnCooldown" => ~JailedAt(r.user, r.tgate)

(***************************** C16 *****************************************)
\* C16: a jail_until that is not strictly after now never blocks: a request is
\* answered Jailed only when the jail_until it loaded is strictly in the future
\* at the time of the answer.
C16_StaleJailNeverBlocks ==
  [][\A i \in Slots :
       (Finishes(i) /\ resp'.outcome = "Jailed")
       => /\ resp'.user.jail_until # NULL
          /\ resp'.user.jail_until > now]_vars

\* an attempt is resolved at the very instant the stored jail_until expires,
\* and jail_until is still stored
C16_Witness ==
  \E r \in Records :
    /\ Resolved(r)
    /\ r.user.jail_until # NULL
    /\ r.user.jail_until = r.tgate

(***************************** C17 *****************************************)
\* C17: lock-out ends by the passage of time alone: once no more operations
\* change the player, there is a time from which the jail and cooldown gates no
\* longer reject a request of the player for the crime.
C17_LockoutEnds ==
  \A p \in Players : \A c \in CrimeIds : <>[]~LockedOut(p, c)

\* a sentence has been served: jail_until is still stored, and the gates pass
C17_Witness ==
  \E p \in Players : \E c \in CrimeIds :
    /\ users[p].unsuccessful_crimes > 0
    /\ users[p].jail_until # NULL
    /\ users[p].jail_until <= now
    /\ ~LockedOut(p, c)

(***************************** C18 *****************************************)
\* the position in RANKS of a rank name
Position(name) == CHOOSE k \in 1 .. Len(RANKS) : RANKS[k].name = name

\* the entry of RANKS with the highest threshold that does not exceed xp
HighestReached(xp) ==
  CHOOSE k \in 1 .. Len(RANKS) :
    /\ RANKS[k].xp <= xp
    /\ \A j \in 1 .. Len(RANKS) : RANKS[j].xp <= xp => RANKS[j].xp <= RANKS[k].xp

\* the threshold of the rank getRank gives to each sample of xp
SampleThreshold == [x \in XpSamples |-> RANKS[Position(getRank(x))].xp]

\* getRank(xp) is the name of the entry with the highest threshold reached,
\* and is in order with the ranks of the samples
RankIsRight(xp, name) ==
  /\ \E k \in 1 .. Len(RANKS) : name = RANKS[k].name
  /\ name = RANKS[HighestReached(xp)].name
  /\ \A k \in 1 .. Len(RANKS) : xp = RANKS[k].xp => name = RANKS[k].name
  /\ \A x \in XpSamples :
       /\ x <= xp => SampleThreshold[x] <= RANKS[Position(name)].xp
       /\ xp <= x => RANKS[Position(name)].xp <= SampleThreshold[x]

\* C18: for the xp of every player, getRank returns the name of the RANKS
\* entry with the highest threshold that does not exceed xp (for xp equal to a
\* threshold, that threshold's name), and getRank is monotone: a smaller xp
\* never has a rank of higher threshold.
C18_GetRank ==
  \A p \in Players : users[p].xp >= 0 => RankIsRight(users[p].xp, getRank(users[p].xp))

\* an attempt has brought xp exactly to a threshold and the rank of that
\* threshold has been stored
C18_Witness ==
  \E p \in Players :
    /\ users[p].total_crimes > 0
    /\ users[p].xp = RANKS[2].xp
    /\ users[p].rank = RANKS[2].name

(***************************** C19 *****************************************)
\* C19: when a resolved attempt has been answered, the stored rank is the
\* rank of the stored xp: rank = getRank(xp).
C19_RankFollowsXp ==
  [][\A i \in Slots :
       (Finishes(i) /\ Resolved(resp'))
       => users'[resp'.p].rank = getRank(users'[resp'.p].xp)]_vars

(***************************** C20 *****************************************)
\* C20: xp is never negative and never decreases.
C20_XpMonotone ==
  [][\A p \in Players : users'[p].xp >= users[p].xp /\ users'[p].xp >= 0]_vars

(***************************** C21 *****************************************)
\* what a success at the crime awards in the deployed revision: points in the
\* last_crimes revision, xp in the revisions with an xp column
SuccessAward(crime) ==
  CASE rev = "LastCrimes" -> PointsGained(crime)
    [] rev = "Cooldowns" -> crime.xp_reward
    [] OTHER -> XpGain(crime)

\* C21: in the revisions that award points or xp, a failed attempt is awarded
\* strictly less than a successful attempt at the same crime.
C21_FailureAwardsLess ==
  \A r \in Records :
    (r.outcome = "Failure" /\ rev \in {"LastCrimes", "Cooldowns", "XpRank"})
    => r.gain < SuccessAward(r.crime)

(***************************** C22 *****************************************)
\* C22: a request whose player id does not resolve is answered UserNotFound
\* (the spec's PlayerNotFound), a request of a known player whose crime id
\* does not resolve is answered CrimeNotFound, whatever the state of the
\* player, jailed or not; and neither answer changes any stored state.
C22_NotFound ==
  [][\A i \in Slots :
       Finishes(i)
       => /\ resp'.p \notin Players => resp'.outcome = "UserNotFound"
          /\ (resp'.p \in Players /\ resp'.c \notin CrimeIds)
             => resp'.outcome = "CrimeNotFound"
          /\ resp'.outcome \in {"UserNotFound", "CrimeNotFound"}
             => UNCHANGED <<users, cooldown_rows, crimes>>]_vars

(***************************** C23 *****************************************)
\* no step rolls for a crime with a negative cooldown_seconds, a request of
\* a free player for such a crime is answered InvalidState, and no step
\* stores a jail_until that is already past
C23_Frame ==
  /\ \A i \in Slots :
       (Resolved(req'[i]) /\ ~Resolved(req[i]))
       => req'[i].crime.cooldown_seconds >= 0
  /\ \A i \in Slots :
       (/\ Finishes(i)
        /\ resp'.p \in Players
        /\ resp'.c \in CrimeIds
        /\ crimes[resp'.c].cooldown_seconds < 0
        /\ resp'.outcome # "Jailed")
       => resp'.outcome = "InvalidState"
  /\ \A p \in Players :
       (users'[p].jail_until # users[p].jail_until /\ users'[p].jail_until # NULL)
       => users'[p].jail_until >= AppNow

\* C23: a crime whose stored cooldown_seconds is negative is answered
\* InvalidState: the handler never rolls for it, changes no state, and never
\* writes a jail_until that lies in the past.
C23_InvalidState == [][C23_Frame]_vars

(***************************** C24 *****************************************)
\* C24: a crime whose cooldown_seconds is 0 is never answered OnCooldown,
\* whatever last-attempt timestamp is stored for it, also when the timestamp
\* was written from the database clock and is compared with the application
\* clock.
C24_ZeroCooldownNeverGates ==
  \A r \in Records : r.outcome = "OnCooldown" => r.crime.cooldown_seconds # 0

(***************************** C25 *****************************************)
\* the revisions that keep the last attempts of a player in users.last_crimes
MapRevisions == {"LastCrimes", "XpRank"}

\* the entry of every committed attempt is in the map
C25_Kept ==
  rev \in MapRevisions
  => \A r \in Records : Committed(r) => users[r.p].last_crimes[r.c] # NULL

\* the UPDATE of an attempt stores the entry of its crime and leaves the
\* entries of the other crimes as they are
C25_Frame ==
  \A i \in Slots :
    (Commits(i) /\ rev \in MapRevisions)
    => /\ users'[req[i].p].last_crimes[req[i].c] = DbNow
       /\ \A d \in CrimeIds \ {req[i].c} :
            users'[req[i].p].last_crimes[d] = users[req[i].p].last_crimes[d]

\* C25: recording the timestamp of one crime never loses or overwrites the
\* entry of another crime: two concurrent attempts at two crimes that both
\* commit leave both entries in the map.
C25_EntriesKept == []C25_Kept /\ [][C25_Frame]_vars

\* two attempts at two crimes, both started before either had committed, have
\* both committed and both entries are stored
C25_Witness ==
  /\ rev \in MapRevisions
  /\ \E i \in Slots :
       /\ Committed(req[i]) /\ Committed(resp)
       /\ req[i].p = resp.p /\ req[i].c # resp.c
       /\ req[i].user.total_crimes = 0 /\ resp.user.total_crimes = 0
       /\ users[resp.p].last_crimes[resp.c] # NULL
       /\ users[resp.p].last_crimes[req[i].c] # NULL

Counters(u) == <<u.total_crimes, u.successful_crimes, u.unsuccessful_crimes>>

\* total_crimes is the sum of the two other counters
C27_Sum ==
  \A p \in Players :
    users[p].total_crimes = users[p].successful_crimes + users[p].unsuccessful_crimes

\* the counters change in the UPDATE of a resolved attempt only: no step of
\* a request that a gate rejects changes them
C27_Frame ==
  \A p \in Players :
    Counters(users'[p]) # Counters(users[p])
    => \E i \in Slots : Commits(i) /\ Resolved(req[i]) /\ req[i].p = p

\* C27: total_crimes = successful_crimes + unsuccessful_crimes in every
\* reachable state, and a request rejected by the jail gate or the cooldown
\* gate changes none of the three counters.
C27_CountersAdd == []C27_Sum /\ [][C27_Frame]_vars

\* an attempt has failed and been counted, and a later request of the player
\* has been rejected by a gate
C27_Witness ==
  /\ resp.outcome \in {"Jailed", "OnCooldown"}
  /\ resp.p \in Players
  /\ users[resp.p].unsuccessful_crimes = 1
  /\ users[resp.p].total_crimes = 1

(***************************** C28 *****************************************)
\* C28: in the XP + rank revision, in every interleaving, once every request
\* has completed the stored rank is getRank of the stored xp, and no step
\* moves the stored rank to a rank of lower threshold: a stale read of xp
\* never overwrites a newer rank.
C28_RankSettles ==
  [][/\ (rev = "XpRank" /\ \A i \in Slots : ~InFlight(i)')
        => \A p \in Players : users'[p].rank = getRank(users'[p].xp)
     /\ rev = "XpRank"
        => \A p \in Players :
             RANKS[Position(users'[p].rank)].xp >= RANKS[Position(users[p].rank)].xp]_vars

(***************************** C29 *****************************************)
\* C29: an attempt never shortens a sentence: in every interleaving of
\* attempts at crimes with different cooldown_seconds, the jail_until a step
\* stores is not earlier than the jail_until stored just before it.
C29_SentenceNeverShortened ==
  [][\A p \in Players :
       users[p].jail_until # NULL => users'[p].jail_until >= users[p].jail_until]_vars

(***************************** C30 *****************************************)
\* C30: whenever a request is answered OnCooldown with a waiting time w, in
\* seconds, 1 <= w <= cooldown_seconds of the crime, also in the revisions
\* that read the clock twice and that store the timestamp from the database
\* clock.
C30_WaitInRange ==
  \A r \in Records :
    (r.outcome = "OnCooldown" /\ r.wait # NULL)
    => 1 <= r.wait /\ r.wait <= r.crime.cooldown_seconds

(***************************** C31 *****************************************)
\* no step changes a player's money + bank balance
C31_Conserved ==
  \A m \in Members :
    accounts'[m].money + accounts'[m].bank_balance
    = accounts[m].money + accounts[m].bank_balance

\* no step leaves a player's money or bank balance negative
C31_NotNegative ==
  \A m \in Members : accounts'[m].money >= 0 /\ accounts'[m].bank_balance >= 0

\* C31: POST /bank/deposit and POST /bank/withdraw conserve money + bank
\* balance of the player and never make money or the bank balance negative,
\* for every amount (zero, negative and not a number included) and every
\* interleaving of the player's concurrent requests, in every revision.
C31_BankSafe == [][C31_Conserved /\ C31_NotNegative]_vars

(***************************** C32 *****************************************)
RECURSIVE SumOf(_, _)
SumOf(f, S) ==
  IF S = {} THEN 0
  ELSE LET x == CHOOSE y \in S : TRUE IN f[x] + SumOf(f, S \ {x})

\* the bank balances of all players, and the amounts debited from a sender
\* and not yet credited to the receiver
BankTotal == SumOf([m \in Members |-> accounts[m].bank_balance], Members)
InTransit ==
  SumOf([i \in Slots |-> IF jobs[i].pc = "credit" THEN jobs[i].amount.n ELSE 0],
        Slots)

\* a transfer is answered with a rejection in this step
Rejects(i) ==
  /\ jobs'[i] # jobs[i]
  /\ jobs'[i].pc = "done"
  /\ jobs'[i].kind = "transfer"
  /\ jobs'[i].outcome # "ok"

\* C32: POST /bank/transfer conserves the sum of the bank balances of all
\* players (counting what is debited and not yet credited), never makes the
\* bank balance of the sender negative, in every interleaving of concurrent
\* transfers of one sender and when the receiver is the sender, and a
\* rejected transfer changes no balance.
C32_TransferSafe ==
  [][/\ BankTotal' + InTransit' = BankTotal + InTransit
     /\ \A m \in Members : accounts'[m].bank_balance >= 0
     /\ \A i \in Slots : Rejects(i) => UNCHANGED accounts]_vars

(***************************** C33 *****************************************)
\* the request in slot i makes its buyer the owner in this step
TakesOwnership(i) ==
  /\ jobs[i].kind = "buy"
  /\ jobs[i].pc \in {"own", "insert"}
  /\ jobs'[i].pc = "done"

\* the request in slot i credits the previous owner in this step
CreditsSeller(i) == jobs[i].pc = "credit" /\ jobs'[i].pc = "own"

\* the money of all players, and the prices debited from buyers and not yet
\* credited to the previous owners
MoneyTotal == SumOf([m \in Members |-> accounts[m].money], Members)
Held ==
  SumOf([i \in Slots |-> IF jobs[i].pc = "credit" /\ jobs[i].paid
                          THEN jobs[i].price ELSE 0], Slots)

\* C33: in the marketplace revision the buyer becomes the owner, and the
\* previous owner is credited, only if the buyer was debited the price; a
\* buyer whose money is below the price never obtains the property, and a
\* purchase from another player leaves the total money of all players
\* unchanged.
C33_PaidBeforeOwned ==
  [][rev = "Market"
     => \A i \in Slots :
          /\ (TakesOwnership(i) \/ CreditsSeller(i)) => jobs[i].paid
          /\ (jobs'[i] # jobs[i] /\ jobs'[i].kind = "buy" /\ jobs'[i].seller # 0)
             => MoneyTotal' + Held' = MoneyTotal + Held]_vars

(***************************** C34 *****************************************)
\* C34: in the revision of POST /properties/buy that answers "Already owned",
\* every property has at most one ownership row in user_properties and the
\* money of no buyer is negative, in every interleaving of concurrent
\* purchases of one property or by one buyer.
C34_OneOwnerNoDebt ==
  rev = "AlreadyOwned"
  => /\ \A q \in PropertyIds : Cardinality(RowsOf(q)) <= 1
     /\ \A m \in Members : accounts[m].money >= 0

(***************************** C35 *****************************************)
\* the request in slot i acts in this step, with a caller whose stored role
\* is among the given ones
ActsAs(i, roles) ==
  /\ jobs'[i] # jobs[i]
  /\ jobs'[i].caller \in Members
  /\ accounts[jobs'[i].caller].role \in roles

\* a step changes the money, bullets or jail_until of a player, or a crime
ChangesState ==
  \/ crimes' # crimes
  \/ \E t \in Members : accounts'[t].money # accounts[t].money
  \/ \E t \in Members : accounts'[t].bullets # accounts[t].bullets
  \/ \E t \in Members : accounts'[t].jail_until # accounts[t].jail_until

\* a step changes the role of a player
ChangesRole == \E t \in Members : accounts'[t].role # accounts[t].role

\* C35: every change of a player's money, bullets or jail_until made by an
\* /admin/* request, and every change of a crime's parameters, is made by a
\* request whose caller id resolves to role admin or mod, every change of a
\* role by a request whose caller is admin; a request without such a caller
\* changes nothing.
C35_AdminOnly ==
  [][(rev \in AdminRevisions)
     => /\ ChangesState => \E i \in Slots : ActsAs(i, {"admin", "mod"})
        /\ ChangesRole => \E i \in Slots : ActsAs(i, {"admin"})]_vars

(***************************** C36 *****************************************)
\* crimes.unlock_requirement in the unlock revision: the first crime is open
\* to everybody, the second after five attempts
unlock_requirement == [c \in CrimeIds |-> IF c = 1 THEN 0 ELSE 5]

\* GET /crimes/:userId: SELECT * FROM crimes WHERE unlock_requirement <= $1,
\* with the total_crimes of the player
ListedCrimes(total) == {c \in CrimeIds : unlock_requirement[c] <= total}

\* C36: in the unlock revision no attempt is resolved, as Success or Failure,
\* for a crime that GET /crimes/:userId would not list for the player: a
\* crime whose unlock_requirement is above the total_crimes the player had at
\* the time of the attempt.
C36_OnlyUnlockedCrimes ==
  \A r \in Records :
    (rev = "Unlock" /\ Resolved(r)) => r.c \in ListedCrimes(r.user.total_crimes)

====
